---- MODULE Spec2Model ----
(***************************************************************************)
(* A model of aipipe.py: one run of main(), from the inspection of         *)
(* sys.argv to the write on standard output, and the pure function         *)
(* extract_code_block.                                                     *)
(*                                                                         *)
(* A Python str is a sequence of one-character strings.  Messages whose    *)
(* inner structure no code inspects (usage text, error texts) are kept as  *)
(* one chunk.                                                              *)
(***************************************************************************)
EXTENDS Naturals, Sequences, FiniteSets

VARIABLES
    argv,        \* sys.argv[1:]: [positionals: Seq(str), flags: SUBSET FlagNames]
    isatty,      \* what sys.stdin.isatty() answers
    stdin,       \* the text waiting on standard input
    GROQ_MODEL,  \* the module-level value of os.getenv('GROQ_MODEL')
    pc,          \* position of main()
    stdinRead,   \* whether sys.stdin.read() was called
    filePrompt,  \* local of main(), Unbound until assigned
    prompt,      \* local of main(), Unbound until assigned
    operand,     \* which operand of the or-chain of line 88-90 is evaluated next
    calls,       \* the provider calls made so far, in order
    completion,  \* local of main(), Unbound until assigned
    output,      \* local of main(), Unbound until assigned
    stdout,      \* everything written to standard output
    stderr,      \* everything written to standard error
    retval,      \* what main() returned, or the exit status of a SystemExit
    exception    \* the exception that left main(), "none" if none

vars == <<argv, isatty, stdin, GROQ_MODEL, pc, stdinRead, filePrompt, prompt,
          operand, calls, completion, output, stdout, stderr, retval, exception>>

----------------------------------------------------------------------------
(* Bounds of the model *)

MaxArgLen == 1
MaxStdinLen == 1
MaxTokens == 7

----------------------------------------------------------------------------
(* Strings *)

RECURSIVE Flatten(_)
Flatten(ss) == IF ss = <<>> THEN <<>> ELSE Head(ss) \o Flatten(Tail(ss))

StringsUpTo(alphabet, n) == UNION {[1..k -> alphabet] : k \in 0..n}

Unbound == <<"<unbound>">>

\* str.isspace(): at least one character and every character is whitespace
IsSpace(s) == s # <<>> /\ \A i \in 1..Len(s) : s[i] \in {" ", "\n", "\t", "\r"}

\* truth value of a str operand of and / or / not
Truthy(s) == s # <<>>

----------------------------------------------------------------------------
(* Module-level constants of aipipe.py *)

ANTHROPIC_MODEL == "claude-3-haiku-20240307"
Gpt4Model == "gpt-4-0125-preview"
MixtralModel == "mixtral-8x7b-32768"
LlamaModel == "llama3-70b-8192"

UsageMessage == <<"Usage: python aifile.py \"query\" > output.txt", "\n">>
EmptyPromptMessage == <<"Error: No prompt provided", "\n">>
Separator == <<"\n", "-", "-", "-", "-", "\n">>

\* what argparse writes before raising SystemExit(2)
ArgparseRequired == <<"error: the following arguments are required: prompt", "\n">>
ArgparseUnrecognized == <<"error: unrecognized arguments", "\n">>

FlagNames == {"--codeblock", "--cb", "--haiku", "--mx", "--l370", "--gpt4"}

----------------------------------------------------------------------------
(* Inputs *)

PromptChars == {"q", " ", "\n"}
ArgStrings == StringsUpTo(PromptChars, MaxArgLen)
StdinStrings == StringsUpTo(PromptChars, MaxStdinLen)
GroqModelValues == {"None", "groq-env-model"}

\* the positional words of a command line: none, the prompt, or the prompt and
\* one word more
PositionalLists ==
    {<<>>} \cup {<<a>> : a \in ArgStrings} \cup {<<a, <<"q">> >> : a \in ArgStrings}

\* U+0060, which a TLA+ string cannot hold
Backtick == "<backtick>"
Fence == <<Backtick, Backtick, Backtick>>
\* texts a provider returns during a run of main()
ProviderTexts == {<<>>, <<"c">>, Fence \o <<"\n", "c", "\n">> \o Fence}

\* texts given to extract_code_block: every concatenation of up to MaxTokens tokens
CompletionTokens == {Fence, <<"\n">>, <<"c">>, <<"+">>}
Completions == {Flatten(ts) : ts \in StringsUpTo(CompletionTokens, MaxTokens)}

----------------------------------------------------------------------------
(* args of main() *)

argc == 1 + Len(argv.positionals) + Cardinality(argv.flags)
argsPrompt == argv.positionals[1]
useHaiku == "--haiku" \in argv.flags
useMixtral == "--mx" \in argv.flags
useLlama == "--l370" \in argv.flags
useGpt4 == "--gpt4" \in argv.flags
codeBlock == "--codeblock" \in argv.flags \/ "--cb" \in argv.flags

----------------------------------------------------------------------------
(* extract_code_block: re.search of FENCE[a-zA-Z0-9.]*\n([\s\S]+?)\nFENCE, where  *)
(* FENCE is three backticks                                                 *)

\* the character class [a-zA-Z0-9.]
AlnumDot ==
    {"a","b","c","d","e","f","g","h","i","j","k","l","m","n","o","p","q","r","s",
     "t","u","v","w","x","y","z","A","B","C","D","E","F","G","H","I","J","K","L",
     "M","N","O","P","Q","R","S","T","U","V","W","X","Y","Z","0","1","2","3","4",
     "5","6","7","8","9","."}

\* the literal pat occurs in text at index i
IsAt(text, i, pat) ==
    /\ i >= 1
    /\ i + Len(pat) - 1 <= Len(text)
    /\ SubSeq(text, i, i + Len(pat) - 1) = pat

Min(S) == CHOOSE x \in S : \A y \in S : x <= y
Max(S) == CHOOSE x \in S : \A y \in S : x >= y

\* the ends e of a group ([\s\S]+?) that starts at s: at least one character,
\* followed by \n and FENCE
GroupEnds(text, s) == {e \in s..Len(text) : IsAt(text, e + 1, <<"\n">> \o Fence)}

\* the tag lengths t with which the pattern matches at index i: FENCE at i, t
\* characters of the class, \n, and then a group
TagLengths(text, i) ==
    {t \in 0..Len(text) :
        /\ IsAt(text, i, Fence)
        /\ \A k \in (i + 3)..(i + 2 + t) : k <= Len(text) /\ text[k] \in AlnumDot
        /\ IsAt(text, i + 3 + t, <<"\n">>)
        /\ GroupEnds(text, i + 4 + t) # {}}

\* the indices at which the pattern matches
MatchStarts(text) == {i \in 1..Len(text) : TagLengths(text, i) # {}}

\* group(1) of the match at i: the greedy tag takes the longest length, the
\* lazy group the nearest end
MatchGroup(text, i) ==
    LET t == Max(TagLengths(text, i))
        s == i + 4 + t
    IN  SubSeq(text, s, Min(GroupEnds(text, s)))

\* a pattern that lost its closing fence: FENCE[a-zA-Z0-9.]*\n([\s\S]+)
extract_code_block_unclosed(text) ==
    LET opens == {i \in 1..Len(text) :
                    \E t \in 0..Len(text) :
                        /\ IsAt(text, i, Fence)
                        /\ \A k \in (i + 3)..(i + 2 + t) :
                               k <= Len(text) /\ text[k] \in AlnumDot
                        /\ IsAt(text, i + 3 + t, <<"\n">>)
                        /\ i + 4 + t <= Len(text)}
    IN  IF opens = {} THEN text
        ELSE LET i == Min(opens)
                 t == Max({u \in 0..Len(text) :
                             /\ \A k \in (i + 3)..(i + 2 + u) :
                                    k <= Len(text) /\ text[k] \in AlnumDot
                             /\ IsAt(text, i + 3 + u, <<"\n">>)})
             IN  SubSeq(text, i + 4 + t, Len(text))

\* re.search returns the leftmost match
extract_code_block(text) ==
    IF MatchStarts(text) = {} THEN text
    ELSE MatchGroup(text, Min(MatchStarts(text)))

----------------------------------------------------------------------------
(* main() *)

Init ==
    /\ argv \in [positionals : PositionalLists, flags : SUBSET FlagNames]
    /\ isatty \in BOOLEAN
    /\ stdin \in StdinStrings
    /\ GROQ_MODEL \in GroqModelValues
    /\ pc = "start"
    /\ stdinRead = FALSE
    /\ filePrompt = Unbound
    /\ prompt = Unbound
    /\ operand = 0
    /\ calls = <<>>
    /\ completion = Unbound
    /\ output = Unbound
    /\ stdout = <<>>
    /\ stderr = <<>>
    /\ retval = "unset"
    /\ exception = "none"

inputs == <<argv, isatty, stdin, GROQ_MODEL>>

\* a guard that is off by one: len(sys.argv) < 1
TooFewArguments == argc < 1

\* the guard of line 52: len(sys.argv) < 2
NoArguments == argc < 2

\* lines 52-54: if len(sys.argv) < 2: print usage; return
UsageCheck ==
    /\ pc = "start"
    /\ IF NoArguments
       THEN /\ stdout' = stdout \o UsageMessage
            /\ retval' = "None"
            /\ pc' = "returned"
       ELSE /\ pc' = "parse"
            /\ UNCHANGED <<stdout, retval>>
    /\ UNCHANGED <<inputs, stdinRead, filePrompt, prompt, operand, calls,
                   completion, output, stderr, exception>>

\* lines 56-70: parser.parse_args(); "prompt" is a required positional
ParseArgs ==
    /\ pc = "parse"
    /\ \/ /\ Len(argv.positionals) = 0
          /\ stderr' = stderr \o ArgparseRequired
          /\ exception' = "SystemExit"
          /\ retval' = "2"
          /\ pc' = "raised"
       \/ /\ Len(argv.positionals) > 1
          /\ stderr' = stderr \o ArgparseUnrecognized
          /\ exception' = "SystemExit"
          /\ retval' = "2"
          /\ pc' = "raised"
       \/ /\ Len(argv.positionals) = 1
          /\ pc' = "read"
          /\ UNCHANGED <<stderr, exception, retval>>
    /\ UNCHANGED <<inputs, stdinRead, filePrompt, prompt, operand, calls,
                   completion, output, stdout>>

\* lines 71-74: isatty = sys.stdin.isatty(); if not isatty: filePrompt = sys.stdin.read()
ReadStdin ==
    /\ pc = "read"
    /\ IF ~isatty
       THEN /\ filePrompt' = stdin
            /\ stdinRead' = TRUE
       ELSE UNCHANGED <<filePrompt, stdinRead>>
    /\ pc' = "compose"
    /\ UNCHANGED <<inputs, prompt, operand, calls, completion, output, stdout,
                   stderr, retval, exception>>

\* lines 76-82
ComposePrompt ==
    /\ pc = "compose"
    /\ \/ /\ Truthy(argsPrompt)
          /\ prompt' = IF isatty THEN argsPrompt
                       ELSE filePrompt \o Separator \o argsPrompt
          /\ pc' = "check"
          /\ UNCHANGED exception
       \/ /\ ~Truthy(argsPrompt)
          /\ filePrompt # Unbound
          /\ prompt' = filePrompt
          /\ pc' = "check"
          /\ UNCHANGED exception
       \/ \* line 82 reads filePrompt, which line 74 did not assign
          /\ ~Truthy(argsPrompt)
          /\ filePrompt = Unbound
          /\ exception' = "UnboundLocalError"
          /\ pc' = "raised"
          /\ UNCHANGED prompt
    /\ UNCHANGED <<inputs, stdinRead, filePrompt, operand, calls, completion,
                   output, stdout, stderr, retval>>

\* lines 84-86
CheckPrompt ==
    /\ pc = "check"
    /\ IF ~Truthy(prompt) \/ prompt = <<>> \/ IsSpace(prompt)
       THEN /\ stderr' = stderr \o EmptyPromptMessage
            /\ retval' = "1"
            /\ pc' = "returned"
            /\ UNCHANGED operand
       ELSE /\ pc' = "dispatch"
            /\ operand' = 1
            /\ UNCHANGED <<stderr, retval>>
    /\ UNCHANGED <<inputs, stdinRead, filePrompt, prompt, calls, completion,
                   output, stdout, exception>>

\* the two overrides tested in the other order
groqModel_llamaFirst ==
    IF useLlama THEN LlamaModel ELSE IF useMixtral THEN MixtralModel ELSE GROQ_MODEL

\* line 90: useMixtral and 'mixtral-8x7b-32768' or useLlama and 'llama3-70b-8192'
\* or GROQ_MODEL (both literals are true, so each "and" yields its literal)
groqModel ==
    IF useMixtral THEN MixtralModel ELSE IF useLlama THEN LlamaModel ELSE GROQ_MODEL

\* one call of a provider function, as main() sees it
ProviderCall(provider, model, outcome, text) ==
    [provider |-> provider, model |-> model, userMessage |-> prompt,
     outcome |-> outcome, text |-> text]

\* a provider function returned text: the value of the operand "flag and f(prompt)"
\* is text, and "or" stops at it when it is true
Returned(call, last) ==
    /\ calls' = Append(calls, call)
    /\ IF last \/ Truthy(call.text)
       THEN /\ completion' = call.text
            /\ pc' = "post"
            /\ UNCHANGED operand
       ELSE /\ operand' = operand + 1
            /\ UNCHANGED <<completion, pc>>
    /\ UNCHANGED exception

\* an except clause that treats the failure as an empty answer
RaisedSwallowed(call, last) ==
    /\ calls' = Append(calls, call)
    /\ IF last
       THEN /\ completion' = <<>>
            /\ pc' = "post"
            /\ UNCHANGED operand
       ELSE /\ operand' = operand + 1
            /\ UNCHANGED <<completion, pc>>
    /\ UNCHANGED exception

\* a provider function raised: nothing in lines 88-96 catches it
Raised(call, last) ==
    /\ calls' = Append(calls, call)
    /\ exception' = "APIError"
    /\ pc' = "raised"
    /\ UNCHANGED <<operand, completion>>

\* line 88: useHaiku and getAnthropicCompletion(prompt)
EvalAnthropicOperand ==
    /\ pc = "dispatch"
    /\ operand = 1
    /\ \/ /\ ~useHaiku
          /\ operand' = 2
          /\ UNCHANGED <<calls, completion, pc, exception>>
       \/ /\ useHaiku
          /\ \E text \in ProviderTexts :
                Returned(ProviderCall("anthropic", ANTHROPIC_MODEL, "returned", text), FALSE)
       \/ /\ useHaiku
          /\ Raised(ProviderCall("anthropic", ANTHROPIC_MODEL, "raised", <<>>), FALSE)
    /\ UNCHANGED <<inputs, stdinRead, filePrompt, prompt, output, stdout, stderr,
                   retval>>

\* line 89: or useGpt4 and getGpt4Completion(prompt)
EvalGpt4Operand ==
    /\ pc = "dispatch"
    /\ operand = 2
    /\ \/ /\ ~useGpt4
          /\ operand' = 3
          /\ UNCHANGED <<calls, completion, pc, exception>>
       \/ /\ useGpt4
          /\ \E text \in ProviderTexts :
                Returned(ProviderCall("gpt4", Gpt4Model, "returned", text), FALSE)
       \/ /\ useGpt4
          /\ Raised(ProviderCall("gpt4", Gpt4Model, "raised", <<>>), FALSE)
    /\ UNCHANGED <<inputs, stdinRead, filePrompt, prompt, output, stdout, stderr,
                   retval>>

\* line 90: or getGroqCompletion(prompt, ...)
EvalGroqOperand ==
    /\ pc = "dispatch"
    /\ operand = 3
    /\ \/ \E text \in ProviderTexts :
             Returned(ProviderCall("groq", groqModel, "returned", text), TRUE)
       \/ Raised(ProviderCall("groq", groqModel, "raised", <<>>), TRUE)
    /\ UNCHANGED <<inputs, stdinRead, filePrompt, prompt, output, stdout, stderr,
                   retval>>

\* lines 91-94
PostProcess ==
    /\ pc = "post"
    /\ output' = IF codeBlock THEN extract_code_block(completion) ELSE completion
    /\ pc' = "write"
    /\ UNCHANGED <<inputs, stdinRead, filePrompt, prompt, operand, calls,
                   completion, stdout, stderr, retval, exception>>

\* line 96, and the implicit return None
WriteOutput ==
    /\ pc = "write"
    /\ stdout' = stdout \o output
    /\ retval' = "None"
    /\ pc' = "returned"
    /\ UNCHANGED <<inputs, stdinRead, filePrompt, prompt, operand, calls,
                   completion, output, stderr, exception>>

Next ==
    \/ UsageCheck
    \/ ParseArgs
    \/ ReadStdin
    \/ ComposePrompt
    \/ CheckPrompt
    \/ EvalAnthropicOperand
    \/ EvalGpt4Operand
    \/ EvalGroqOperand
    \/ PostProcess
    \/ WriteOutput

Spec == Init /\ [][Next]_vars

----------------------------------------------------------------------------
(* Lines 91-96 on their own: main() just after line 90, in a run on a        *)
(* terminal with the prompt "q" whose Groq call returned any of Completions *)

InitExtract ==
    /\ argv \in [positionals : {<< <<"q">> >>},
                 flags : {{}, {"--codeblock"}}]
    /\ isatty = TRUE
    /\ stdin = <<>>
    /\ GROQ_MODEL = "groq-env-model"
    /\ pc = "post"
    /\ stdinRead = FALSE
    /\ filePrompt = Unbound
    /\ prompt = <<"q">>
    /\ operand = 3
    /\ completion \in Completions
    /\ calls = << [provider |-> "groq", model |-> GROQ_MODEL, userMessage |-> prompt,
                   outcome |-> "returned", text |-> completion] >>
    /\ output = Unbound
    /\ stdout = <<>>
    /\ stderr = <<>>
    /\ retval = "unset"
    /\ exception = "none"

NextExtract == PostProcess \/ WriteOutput

SpecExtract == InitExtract /\ [][NextExtract]_vars

----------------------------------------------------------------------------
(* Vocabulary of the properties *)

Terminated == pc \in {"returned", "raised"}

\* main() got past line 86 (operand is set when the or-chain starts)
ReachedDispatch == operand >= 1

\* the or-chain of lines 88-90 produced a value
Dispatched == pc \in {"post", "write"} \/ (pc = "returned" /\ ReachedDispatch)

CallIndices == 1..Len(calls)

\* empty or whitespace only
Blank(s) == s = <<>> \/ IsSpace(s)

\* the prompt the two sources make up: piped text counts only when standard
\* input is not a terminal
SuppliedPrompt ==
    LET piped == IF isatty THEN <<>> ELSE stdin
    IN  IF argsPrompt # <<>> /\ ~isatty THEN piped \o Separator \o argsPrompt
        ELSE IF argsPrompt # <<>> THEN argsPrompt
        ELSE piped

\* a fence sits at index i
FenceStarts(text) == {i \in 1..Len(text) : IsAt(text, i, Fence)}

BacktickCount(text) == Cardinality({i \in 1..Len(text) : text[i] = Backtick})

\* two triple backticks that do not overlap, bounding a region
ContainsFencedRegion(text) ==
    \E i, j \in FenceStarts(text) : j >= i + 3

Newlines(text, from) == {k \in from..Len(text) : text[k] = "\n"}

\* Exactly one Markdown fenced code block and no other backtick: an opening
\* fence at the start of a line, an optional language name up to the end of
\* that line, content that is not empty, and a closing fence alone on its
\* line.
IsSingleBlock(text) ==
    /\ BacktickCount(text) = 6
    /\ Cardinality(FenceStarts(text)) = 2
    /\ LET o == Min(FenceStarts(text))
           c == Max(FenceStarts(text))
       IN  /\ o = 1 \/ text[o - 1] = "\n"
           /\ Newlines(text, o + 3) # {}
           /\ LET nl == Min(Newlines(text, o + 3))
              IN  /\ nl + 1 < c - 1
                  /\ \A k \in (o + 3)..(nl - 1) : text[k] \notin {" ", "\t", "\r"}
                  /\ text[c - 1] = "\n"
           /\ c + 3 > Len(text) \/ text[c + 3] = "\n"

\* the content of that block: what lies between the line of the opening
\* fence and the line of the closing fence
BlockInner(text) ==
    LET o == Min(FenceStarts(text))
        c == Max(FenceStarts(text))
        nl == Min(Newlines(text, o + 3))
    IN  SubSeq(text, nl + 1, c - 2)

----------------------------------------------------------------------------
(* Properties *)

\* C1: with both --haiku and --gpt4 set, a run that reaches dispatch calls
\* only the Anthropic function, and the completion is what that call returned,
\* whatever it returned.
C1_ClaudePrecedence ==
    (useHaiku /\ useGpt4 /\ ReachedDispatch) =>
        /\ \A i \in CallIndices : calls[i].provider = "anthropic"
        /\ Dispatched => completion = calls[1].text

\* C2: a run that reaches dispatch makes exactly one provider call: never
\* more than one, and one once the or-chain has produced its value.
C2_ExactlyOneCall ==
    /\ Len(calls) <= 1
    /\ Dispatched => Len(calls) = 1

\* C3: whenever the arguments parse and the prompt the sources make up is
\* empty or whitespace, main() ends on the empty-prompt path: the message on
\* standard error, 1 returned, no provider call, nothing on standard output.
C3_EmptyPromptError ==
    (Terminated /\ Len(argv.positionals) = 1 /\ Blank(SuppliedPrompt)) =>
        /\ pc = "returned"
        /\ exception = "none"
        /\ stderr = EmptyPromptMessage
        /\ retval = "1"
        /\ calls = <<>>
        /\ stdout = <<>>

\* C4: with piped text p (not blank), flags and no prompt argument, the prompt
\* is p and main() goes on to dispatch with it.
C4_PipedAlone ==
    (/\ Terminated
     /\ ~isatty
     /\ ~Blank(stdin)
     /\ Len(argv.positionals) = 0
     /\ argv.flags # {}) =>
        /\ prompt = stdin
        /\ calls # <<>>
        /\ \A i \in CallIndices : calls[i].userMessage = stdin

\* C5: once composed, the prompt is piped text, separator, argument when both
\* are supplied, and the one source that is present otherwise: the argument
\* when standard input is a terminal or carries no text, the piped text when
\* the argument is empty.
C5_Composition ==
    LET hasPiped == ~isatty /\ stdin # <<>>
        hasArg == argsPrompt # <<>>
    IN  (prompt # Unbound) =>
            /\ (hasPiped /\ hasArg) => prompt = stdin \o Separator \o argsPrompt
            /\ (~hasPiped /\ hasArg) => prompt = argsPrompt
            /\ (hasPiped /\ ~hasArg) => prompt = stdin

\* C6: on a text holding exactly one fenced code block (with content, and
\* with or without a language name), --codeblock yields exactly the content
\* of the block.
C6_SingleBlock ==
    (pc \in {"write", "returned"} /\ codeBlock /\ IsSingleBlock(completion)) =>
        output = BlockInner(completion)

\* C7: on a non-empty text with no region bounded by triple backticks,
\* --codeblock leaves the text as it is: the output, and then standard
\* output, equal the completion, and no error is raised.
C7_Fallback ==
    (codeBlock /\ completion # <<>> /\ ~ContainsFencedRegion(completion)) =>
        /\ pc \in {"write", "returned"} => output = completion
        /\ pc = "returned" => stdout = completion /\ exception = "none"

C7_Witness ==
    /\ pc = "returned"
    /\ codeBlock
    /\ FenceStarts(completion) # {}
    /\ Newlines(completion, 1) # {}
    /\ ~ContainsFencedRegion(completion)
    /\ stdout = completion

\* C8: a provider call that raises is the last thing main() does: the error
\* leaves main(), no call follows it, the provider that raised was called
\* once, and nothing is written to standard output.
C8_ProviderFailure ==
    \A i \in CallIndices :
        calls[i].outcome = "raised" =>
            /\ i = Len(calls)
            /\ pc = "raised"
            /\ exception = "APIError"
            /\ retval = "unset"
            /\ output = Unbound
            /\ stdout = <<>>
            /\ \A j \in CallIndices : j # i => calls[j].provider # calls[i].provider

C8_Witness ==
    /\ useHaiku
    /\ useGpt4
    /\ pc = "raised"
    /\ Len(calls) = 1
    /\ calls[1].provider = "anthropic"
    /\ calls[1].outcome = "raised"

\* C9: invoked with no arguments, main() prints the usage message and
\* returns: standard input is not read, no provider is called and no error
\* is reported.
C9_UsagePath ==
    (argc < 2 /\ pc # "start") =>
        /\ pc = "returned"
        /\ stdout = UsageMessage
        /\ ~stdinRead
        /\ calls = <<>>
        /\ stderr = <<>>
        /\ retval = "None"
        /\ exception = "none"

C9_Witness ==
    /\ argc < 2
    /\ ~isatty
    /\ stdin # <<>>
    /\ pc = "returned"
    /\ stdout = UsageMessage

\* C10 as stated: once the or-chain has produced its value, --mx means the
\* request went to Groq with the Mixtral model and --l370 that it went to
\* Groq with the Llama model, whatever the other flags.
C10_FlagSelectsGroqModel ==
    Dispatched =>
        /\ useMixtral =>
              \A i \in CallIndices :
                  calls[i].provider = "groq" /\ calls[i].model = MixtralModel
        /\ useLlama =>
              \A i \in CallIndices :
                  calls[i].provider = "groq" /\ calls[i].model = LlamaModel
        /\ (~useMixtral /\ ~useLlama) =>
              \A i \in CallIndices :
                  calls[i].provider = "groq" => calls[i].model = GROQ_MODEL

\* C10 as amended: every Groq call carries the Mixtral model when --mx is set,
\* else the Llama model when --l370 is set, else GROQ_MODEL; with neither
\* --haiku nor --gpt4 the one call of the run is the Groq call, and otherwise
\* a Groq call comes only after the calls before it returned an empty text.
C10_GroqModel ==
    /\ \A i \in CallIndices :
          calls[i].provider = "groq" =>
              /\ useMixtral => calls[i].model = MixtralModel
              /\ (~useMixtral /\ useLlama) => calls[i].model = LlamaModel
              /\ (~useMixtral /\ ~useLlama) => calls[i].model = GROQ_MODEL
              /\ \A j \in 1..(i - 1) :
                    /\ calls[j].provider # "groq"
                    /\ calls[j].outcome = "returned"
                    /\ calls[j].text = <<>>
    /\ (~useHaiku /\ ~useGpt4 /\ calls # <<>>) =>
          Len(calls) = 1 /\ calls[1].provider = "groq"

C10_Witness ==
    /\ useMixtral
    /\ useLlama
    /\ pc = "returned"
    /\ Len(calls) = 1
    /\ calls[1].provider = "groq"
    /\ calls[1].model = MixtralModel

====
